---- MODULE Spec2Model ----
(***************************************************************************)
(* A model of package signals (handlers.go): the registry of signal        *)
(* handler chains, the registration functions, the dispatch goroutine      *)
(* handleSignals and Stop.                                                  *)
(*                                                                          *)
(* Tasks are goroutines.  Callers are the goroutines of the program that   *)
(* call the package; Loops are the goroutines started by                    *)
(* "go handleSignals()".  Every statement that reads or writes a package   *)
(* variable outside the mutex utx is a step of its own, so that the        *)
(* unsynchronised accesses of Stop and of handleSignals interleave with    *)
(* the critical section of register as the Go scheduler allows.            *)
(***************************************************************************)
EXTENDS Integers, Sequences, FiniteSets

\* ------------------------------------------------------------------ bounds
NumCallers == 2   \* goroutines calling the package
MaxReg     == 2   \* registration calls in one behaviour
MaxLen     == 2   \* length of the signal list of one registration call
NumSigs    == 2   \* distinct signals

Callers == 1..NumCallers
Loops   == (NumCallers + 1)..(NumCallers + MaxReg + 1)
Tasks   == Callers \cup Loops
Sigs    == 1..NumSigs

RECURSIVE SeqsUpTo(_, _)
SeqsUpTo(S, n) ==
    IF n = 0 THEN {<<>>}
    ELSE LET shorter == SeqsUpTo(S, n - 1)
         IN  shorter \cup {Append(q, x) : q \in {r \in shorter : Len(r) = n - 1}, x \in S}

SigLists == SeqsUpTo(Sigs, MaxLen)

\* ------------------------------------------------------------------- state
VARIABLES
    utx,        \* sync.Mutex: 0 when free, else the task holding it
    on,         \* var on bool
    handlers,   \* var handlers map[os.Signal][]*handler
    nch,        \* var nch chan os.Signal   (0 is nil, else the channel made)
    done,       \* var done chan struct{}
    down,       \* var down chan struct{}
    nchans,     \* number of make(chan) rounds so far: the next fresh channel
    closedDone, \* the done channels that have been closed
    closedDown, \* the down channels that have been closed
    subs,       \* os/signal: channel -> signals it is notified of
    panicked,   \* a goroutine panicked: the process is gone
    pc,         \* task -> position in its code
    wd,         \* task -> the channel "<-down" of its Stop is blocked on
    rh,         \* caller -> the *handler its register call was given
    rsl,        \* caller -> the signals its register loop has still to do
    ldone,      \* loop -> the done channel its select is waiting on
    lnch,       \* loop -> the nch channel its select is waiting on
    lsig,       \* loop -> the signal received
    lchain,     \* loop -> the slice "range handlers[s]" iterates
    lidx,       \* loop -> position in that slice
    lres,       \* loop -> what the handler being run is going to return
    nreg,       \* registration calls so far (the identity of a *handler)
    trace,      \* history: handlers invoked by the delivery being dispatched
    replaced,   \* history: <<signal, id>> of soft entries overwritten
    old,        \* history: ids of the handlers of discarded maps
    stopped,    \* history: a Stop that found on set has returned and no
                \*          register call has begun since
    quiet,      \* history: such a Stop has returned and since then no register
                \*          call has begun and no goroutine has been started
    rexp,       \* history: caller -> the chains its register call yields when
                \*          it is applied in one step to the map of line 72
    after,      \* history: caller -> its register call is the first to begin
                \*          after such a Stop returned
    fresh       \* caller -> its register call found on unset at line 72

vars == <<utx, on, handlers, nch, done, down, nchans, closedDone, closedDown,
          subs, panicked, pc, wd, rh, rsl, ldone, lnch, lsig, lchain, lidx,
          lres, nreg, trace, replaced, old, stopped, quiet, after, fresh, rexp>>

chanVars == <<nch, done, down, nchans, closedDone, closedDown>>
regVars  == <<rh, rsl, nreg, fresh, after, rexp>>
loopVars == <<ldone, lnch, lsig, lchain, lidx, lres>>
histVars == <<trace, replaced, old, stopped, quiet>>

NoHandler == [id |-> 0, soft |-> FALSE, once |-> FALSE]

\* a lookup that finds no handler
ChainNone(s) == <<>>

\* handlers[s] of Go: the nil slice when the key is absent
Chain(s) == IF s \in DOMAIN handlers THEN handlers[s] ELSE <<>>

Init ==
    /\ utx = 0
    /\ on = FALSE
    /\ handlers = <<>>
    /\ nch = 0 /\ done = 0 /\ down = 0
    /\ nchans = 0
    /\ closedDone = {} /\ closedDown = {}
    /\ subs = [c \in 1..(MaxReg + 1) |-> {}]
    /\ panicked = FALSE
    /\ pc = [t \in Tasks |-> IF t \in Callers THEN "idle" ELSE "none"]
    /\ wd = [t \in Tasks |-> 0]
    /\ rh = [c \in Callers |-> NoHandler]
    /\ rsl = [c \in Callers |-> <<>>]
    /\ ldone = [l \in Loops |-> 0]
    /\ lnch = [l \in Loops |-> 0]
    /\ lsig = [l \in Loops |-> 0]
    /\ lchain = [l \in Loops |-> <<>>]
    /\ lidx = [l \in Loops |-> 0]
    /\ lres = [l \in Loops |-> TRUE]
    /\ nreg = 0
    /\ trace = <<>>
    /\ replaced = {}
    /\ old = {}
    /\ stopped = FALSE
    /\ quiet = FALSE
    /\ fresh = [c \in Callers |-> FALSE]
    /\ after = [c \in Callers |-> FALSE]
    /\ rexp = [c \in Callers |-> <<>>]


\* ------------------------------------------------------------ registration
\* The ids of the entries of a chain, in chain order
Ids(ch) == [i \in 1..Len(ch) |-> ch[i].id]

AllIds(m) == UNION {{m[s][i].id : i \in 1..Len(m[s])} : s \in DOMAIN m}

\* a merge that never overwrites
MergeAppend(ch, h) == Append(ch, h)

\* lines 84-88: a soft last entry is overwritten, otherwise h is appended
Merge(ch, h) ==
    IF Len(ch) > 0 /\ ch[Len(ch)].soft
    THEN [ch EXCEPT ![Len(ch)] = h]
    ELSE Append(ch, h)

\* the entry the merge of h into ch overwrites, as <<s, id>> (history only)
Overwritten(s, ch, h) ==
    IF Len(ch) > 0 /\ ch[Len(ch)].soft /\ ch[Len(ch)].id # h.id
    THEN {<<s, ch[Len(ch)].id>>}
    ELSE {}

\* the map m with the chain of s set to ch
Put(m, s, ch) == [x \in DOMAIN m \cup {s} |-> IF x = s THEN ch ELSE m[x]]

\* lines 79-89 as one step: h merged into the chains of m for each signal of sl
RECURSIVE Apply(_, _, _)
Apply(m, h, sl) ==
    IF sl = <<>> THEN m
    ELSE LET s  == Head(sl)
             ch == IF s \in DOMAIN m THEN m[s] ELSE <<>>
         IN  Apply(Put(m, s, Merge(ch, h)), h, Tail(sl))

\* a mutex that excludes nobody
LockAlways(m) == TRUE

\* lines 67, 147: utx.Lock() goes on only when no goroutine holds the mutex m
Lock(m) == m = 0

\* lines 66-70: register locks utx; the call is given the entry h and the list sl
register(c, h, sl) ==
    /\ ~panicked
    /\ pc[c] = "idle"
    /\ Lock(utx)
    /\ utx' = c
    /\ rh' = [rh EXCEPT ![c] = h]
    /\ rsl' = [rsl EXCEPT ![c] = sl]
    /\ fresh' = [fresh EXCEPT ![c] = FALSE]
    /\ after' = [after EXCEPT ![c] = stopped]
    /\ stopped' = FALSE
    /\ quiet' = FALSE
    /\ nreg' = nreg + 1
    /\ pc' = [pc EXCEPT ![c] = "r_init"]
    /\ UNCHANGED <<on, handlers, chanVars, subs, panicked, wd, loopVars,
                   trace, replaced, old, rexp>>

\* An entry is &handler{hdlr, soft, info}.  id stands for the function value
\* and its info: the number of the registration call that passed it.  once
\* tells that the function is the wrapper registerOne builds.

\* line 55: &handler{h, false, ...}
HandlerEntry(n) == [id |-> n, soft |-> FALSE, once |-> FALSE]

\* line 63: &handler{h, true, ...}
SoftEntry(n) == [id |-> n, soft |-> TRUE, once |-> FALSE]

\* a registerOne that registers its wrapper soft
OneEntrySoft(n) == [id |-> n, soft |-> TRUE, once |-> TRUE]

\* line 98: RegisterHandler(func(os.Signal) bool { f(); return true }, s)
OneEntry(n) == [id |-> n, soft |-> FALSE, once |-> TRUE]

\* lines 54-56
RegisterHandler(c) ==
    /\ nreg < MaxReg
    /\ \E sl \in SigLists : register(c, HandlerEntry(nreg + 1), sl)

\* lines 62-64
RegisterSoftHandler(c) ==
    /\ nreg < MaxReg
    /\ \E sl \in SigLists : register(c, SoftEntry(nreg + 1), sl)

\* lines 97-127: registerOne and the OnSIG... functions
registerOne(c) ==
    /\ nreg < MaxReg
    /\ \E s \in Sigs : register(c, OneEntry(nreg + 1), <<s>>)

\* lines 54-56: one RegisterHandler call of one signal beyond the MaxReg calls
RegisterLate(c) ==
    /\ nreg = MaxReg
    /\ \E s \in Sigs : register(c, HandlerEntry(nreg + 1), <<s>>)

\* lines 72-73: the first test of on, and the new map
RegInit(c) ==
    /\ ~panicked
    /\ pc[c] = "r_init"
    /\ IF ~on
       THEN /\ handlers' = <<>>
            /\ old' = old \cup AllIds(handlers)
            /\ fresh' = [fresh EXCEPT ![c] = TRUE]
            /\ pc' = [pc EXCEPT ![c] = "r_done"]
       ELSE /\ pc' = [pc EXCEPT ![c] = "r_loop"]
            /\ UNCHANGED <<handlers, old, fresh>>
    /\ rexp' = [rexp EXCEPT ![c] = Apply(handlers', rh[c], rsl[c])]
    /\ UNCHANGED <<utx, on, chanVars, subs, panicked, wd, rh, rsl, nreg, after,
                   loopVars, trace, replaced, stopped, quiet>>

\* line 74
RegMakeDone(c) ==
    /\ ~panicked
    /\ pc[c] = "r_done"
    /\ done' = nchans + 1
    /\ pc' = [pc EXCEPT ![c] = "r_down"]
    /\ UNCHANGED <<utx, on, handlers, nch, down, nchans, closedDone, closedDown,
                   subs, panicked, wd, regVars, loopVars, histVars>>

\* line 75
RegMakeDown(c) ==
    /\ ~panicked
    /\ pc[c] = "r_down"
    /\ down' = nchans + 1
    /\ pc' = [pc EXCEPT ![c] = "r_nch"]
    /\ UNCHANGED <<utx, on, handlers, nch, done, nchans, closedDone, closedDown,
                   subs, panicked, wd, regVars, loopVars, histVars>>

\* line 76
RegMakeNch(c) ==
    /\ ~panicked
    /\ pc[c] = "r_nch"
    /\ nch' = nchans + 1
    /\ nchans' = nchans + 1
    /\ pc' = [pc EXCEPT ![c] = "r_loop"]
    /\ UNCHANGED <<utx, on, handlers, done, down, closedDone, closedDown,
                   subs, panicked, wd, regVars, loopVars, histVars>>

\* lines 79-89: one iteration of the loop over the signal list
RegStep(c) ==
    /\ ~panicked
    /\ pc[c] = "r_loop"
    /\ rsl[c] # <<>>
    /\ LET s == Head(rsl[c])
           h == rh[c]
       IN  /\ IF s \notin DOMAIN handlers /\ nch # 0
              THEN subs' = [subs EXCEPT ![nch] = @ \cup {s}]
              ELSE UNCHANGED subs
           \* signal.Notify panics when given a nil channel
           /\ panicked' = (s \notin DOMAIN handlers /\ nch = 0)
           /\ handlers' = Put(handlers, s, Merge(Chain(s), h))
           /\ replaced' = replaced \cup Overwritten(s, Chain(s), h)
    /\ rsl' = [rsl EXCEPT ![c] = Tail(@)]
    /\ UNCHANGED <<utx, on, chanVars, pc, wd, rh, nreg, fresh, after, loopVars,
                   trace, old, stopped, quiet, rexp>>

\* the lowest goroutine not yet started
NewLoop == CHOOSE l \in Loops : pc[l] = "none" /\ \A m \in Loops : pc[m] = "none" => l <= m

\* register returns: the deferred utx.Unlock() of line 68
EndRegister(c) ==
    /\ utx' = 0
    /\ rh' = [rh EXCEPT ![c] = NoHandler]
    /\ fresh' = [fresh EXCEPT ![c] = FALSE]
    /\ after' = [after EXCEPT ![c] = FALSE]
    /\ rexp' = [rexp EXCEPT ![c] = <<>>]

\* lines 91-92: the second test of on, and go handleSignals(); with on set
\* register returns
RegFin(c) ==
    /\ ~panicked
    /\ pc[c] = "r_loop"
    /\ rsl[c] = <<>>
    /\ IF ~on
       THEN /\ pc' = [pc EXCEPT ![c] = "r_on", ![NewLoop] = "select"]
            /\ quiet' = FALSE
            /\ UNCHANGED <<utx, rh, fresh, after, rexp>>
       ELSE /\ pc' = [pc EXCEPT ![c] = "idle"]
            /\ EndRegister(c)
            /\ UNCHANGED quiet
    /\ UNCHANGED <<on, handlers, chanVars, subs, panicked, wd, rsl, nreg,
                   loopVars, trace, replaced, old, stopped>>

\* lines 93-95: on = true, and register returns
RegOn(c) ==
    /\ ~panicked
    /\ pc[c] = "r_on"
    /\ on' = TRUE
    /\ pc' = [pc EXCEPT ![c] = "idle"]
    /\ EndRegister(c)
    /\ UNCHANGED <<handlers, chanVars, subs, panicked, wd, rsl, nreg, loopVars,
                   histVars>>


\* -------------------------------------------------------------------- Stop
\* Stop returns: to the caller, or into the handler that called it
Return(t) == IF t \in Callers THEN "idle" ELSE "h_run"

\* a Stop that runs its body whatever on is
StopTestAlways(o) == TRUE

\* line 42: the test that guards the body of Stop
StopTest(o) == o

\* line 41: a caller calls Stop
StopCall(c) ==
    /\ ~panicked
    /\ pc[c] = "idle"
    /\ pc' = [pc EXCEPT ![c] = "s_check"]
    /\ UNCHANGED <<utx, on, handlers, chanVars, subs, panicked, wd, regVars,
                   loopVars, histVars>>

\* line 42: "if on", read without the lock
StopCheck(t) ==
    /\ ~panicked
    /\ pc[t] = "s_check"
    /\ pc' = [pc EXCEPT ![t] = IF StopTest(on) THEN "s_sigstop" ELSE Return(t)]
    /\ UNCHANGED <<utx, on, handlers, chanVars, subs, panicked, wd, regVars,
                   loopVars, histVars>>

\* line 43: signal.Stop(nch)
StopSignalStop(t) ==
    /\ ~panicked
    /\ pc[t] = "s_sigstop"
    /\ subs' = IF nch = 0 THEN subs ELSE [subs EXCEPT ![nch] = {}]
    /\ pc' = [pc EXCEPT ![t] = "s_close"]
    /\ UNCHANGED <<utx, on, handlers, chanVars, panicked, wd, regVars,
                   loopVars, histVars>>

\* line 44: close(done); closing a nil or a closed channel panics
StopClose(t) ==
    /\ ~panicked
    /\ pc[t] = "s_close"
    /\ IF done = 0 \/ done \in closedDone
       THEN /\ panicked' = TRUE
            /\ UNCHANGED closedDone
       ELSE /\ closedDone' = closedDone \cup {done}
            /\ UNCHANGED panicked
    /\ pc' = [pc EXCEPT ![t] = "s_eval"]
    /\ UNCHANGED <<utx, on, handlers, nch, done, down, nchans, closedDown, subs,
                   wd, regVars, loopVars, histVars>>

\* line 45: the operand of "<-down" is read, and the receive blocks on it
StopEval(t) ==
    /\ ~panicked
    /\ pc[t] = "s_eval"
    /\ wd' = [wd EXCEPT ![t] = down]
    /\ pc' = [pc EXCEPT ![t] = "s_wait"]
    /\ UNCHANGED <<utx, on, handlers, chanVars, subs, panicked, regVars,
                   loopVars, histVars>>

\* lines 45-47: the receive succeeds once the channel is closed (never on a
\* nil channel); then on = false and Stop returns
StopWait(t) ==
    /\ ~panicked
    /\ pc[t] = "s_wait"
    /\ wd[t] \in closedDown
    /\ on' = FALSE
    /\ stopped' = TRUE
    /\ quiet' = TRUE
    /\ wd' = [wd EXCEPT ![t] = 0]
    /\ pc' = [pc EXCEPT ![t] = Return(t)]
    /\ UNCHANGED <<utx, handlers, chanVars, subs, panicked, regVars, loopVars,
                   trace, replaced, old>>

\* ----------------------------------------------------------- handleSignals
\* lines 31, 98: what a call of the entry's function may return: a Handler
\* returns either value, the wrapper of registerOne returns true
Results(h) == IF h.once THEN {TRUE} ELSE BOOLEAN

\* a walk that ignores the result
ContinueAlways(r) == TRUE

\* line 152: "if !h.hdlr(s) { return }": the walk goes on after the result r
Continue(r) == r

\* a handler invocation is in flight on goroutine l
InHandler(l) ==
    pc[l] \in {"h_run", "s_check", "s_sigstop", "s_close", "s_eval", "s_wait"}

\* line 132: the select reads done and nch and blocks on them
LoopSelect(l) ==
    /\ ~panicked
    /\ pc[l] = "select"
    /\ ldone' = [ldone EXCEPT ![l] = done]
    /\ lnch' = [lnch EXCEPT ![l] = nch]
    /\ pc' = [pc EXCEPT ![l] = "wait"]
    /\ UNCHANGED <<utx, on, handlers, chanVars, subs, panicked, wd, regVars,
                   lsig, lchain, lidx, lres, histVars>>

\* line 133: case <-done
LoopDone(l) ==
    /\ ~panicked
    /\ pc[l] = "wait"
    /\ ldone[l] \in closedDone
    /\ pc' = [pc EXCEPT ![l] = "closing"]
    /\ UNCHANGED <<utx, on, handlers, chanVars, subs, panicked, wd, regVars,
                   loopVars, histVars>>

\* lines 135-136: close(down) and return
LoopClose(l) ==
    /\ ~panicked
    /\ pc[l] = "closing"
    /\ IF down = 0 \/ down \in closedDown
       THEN /\ panicked' = TRUE
            /\ UNCHANGED closedDown
       ELSE /\ closedDown' = closedDown \cup {down}
            /\ UNCHANGED panicked
    /\ ldone' = [ldone EXCEPT ![l] = 0]
    /\ lnch' = [lnch EXCEPT ![l] = 0]
    /\ pc' = [pc EXCEPT ![l] = "exited"]
    /\ UNCHANGED <<utx, on, handlers, nch, done, down, nchans, closedDone, subs,
                   wd, regVars, lsig, lchain, lidx, lres, histVars>>

\* line 138: case s := <-nch.  os/signal sends without blocking, and nch is
\* unbuffered: a signal reaches the loop only while it waits in the select
Deliver(l, s) ==
    /\ ~panicked
    /\ pc[l] = "wait"
    /\ lnch[l] # 0
    /\ s \in subs[lnch[l]]
    /\ lsig' = [lsig EXCEPT ![l] = s]
    /\ ldone' = [ldone EXCEPT ![l] = 0]
    /\ lnch' = [lnch EXCEPT ![l] = 0]
    /\ pc' = [pc EXCEPT ![l] = "lock"]
    /\ UNCHANGED <<utx, on, handlers, chanVars, subs, panicked, wd, regVars,
                   lchain, lidx, lres, histVars>>

\* lines 147-150: utx.Lock(), and the range expression handlers[s]
LoopLock(l) ==
    /\ ~panicked
    /\ pc[l] = "lock"
    /\ Lock(utx)
    /\ utx' = l
    /\ lchain' = [lchain EXCEPT ![l] = Chain(lsig[l])]
    /\ lidx' = [lidx EXCEPT ![l] = 1]
    /\ trace' = <<>>
    /\ pc' = [pc EXCEPT ![l] = "walk"]
    /\ UNCHANGED <<on, handlers, chanVars, subs, panicked, wd, regVars,
                   ldone, lnch, lsig, lres, replaced, old, stopped, quiet>>

\* line 152: h.hdlr(s) is called.  The function either calls Stop on its
\* way (callsStop) or does not touch the package, and then returns r.
Invoke(l, callsStop, r) ==
    /\ ~panicked
    /\ pc[l] = "walk"
    /\ lidx[l] <= Len(lchain[l])
    /\ r \in Results(lchain[l][lidx[l]])
    /\ lres' = [lres EXCEPT ![l] = r]
    /\ trace' = Append(trace, <<lchain[l][lidx[l]].id, r>>)
    /\ pc' = [pc EXCEPT ![l] = IF callsStop THEN "s_check" ELSE "h_run"]
    /\ UNCHANGED <<utx, on, handlers, chanVars, subs, panicked, wd, regVars,
                   ldone, lnch, lsig, lchain, lidx, replaced, old, stopped,
                   quiet>>

LoopInvoke(l) == \E r \in BOOLEAN : Invoke(l, FALSE, r)

\* a handler that calls Stop, which the package's contract forbids
LoopInvokeStopping(l) == \E r \in BOOLEAN : Invoke(l, TRUE, r)

\* the end of the walk: the deferred utx.Unlock(), and back to the select
EndWalk(l) ==
    /\ utx' = 0
    /\ lsig' = [lsig EXCEPT ![l] = 0]
    /\ lchain' = [lchain EXCEPT ![l] = <<>>]
    /\ lidx' = [lidx EXCEPT ![l] = 0]
    /\ lres' = [lres EXCEPT ![l] = TRUE]
    /\ pc' = [pc EXCEPT ![l] = "select"]

\* lines 152-156: the handler returns
HandlerReturn(l) ==
    /\ ~panicked
    /\ pc[l] = "h_run"
    /\ IF Continue(lres[l])
       THEN /\ lidx' = [lidx EXCEPT ![l] = @ + 1]
            /\ lres' = [lres EXCEPT ![l] = TRUE]
            /\ pc' = [pc EXCEPT ![l] = "walk"]
            /\ UNCHANGED <<utx, lsig, lchain>>
       ELSE EndWalk(l)
    /\ UNCHANGED <<on, handlers, chanVars, subs, panicked, wd, regVars,
                   ldone, lnch, histVars>>

\* lines 150, 157-158: the range is exhausted
LoopUnlock(l) ==
    /\ ~panicked
    /\ pc[l] = "walk"
    /\ lidx[l] > Len(lchain[l])
    /\ EndWalk(l)
    /\ UNCHANGED <<on, handlers, chanVars, subs, panicked, wd, regVars,
                   ldone, lnch, histVars>>

\* ----------------------------------------------------------- specification
\* the steps of the package when the program keeps to its contract
Next ==
    \/ \E c \in Callers : RegisterHandler(c)
    \/ \E c \in Callers : RegisterSoftHandler(c)
    \/ \E c \in Callers : registerOne(c)
    \/ \E c \in Callers : RegInit(c)
    \/ \E c \in Callers : RegMakeDone(c)
    \/ \E c \in Callers : RegMakeDown(c)
    \/ \E c \in Callers : RegMakeNch(c)
    \/ \E c \in Callers : RegStep(c)
    \/ \E c \in Callers : RegFin(c)
    \/ \E c \in Callers : RegOn(c)
    \/ \E c \in Callers : StopCall(c)
    \/ \E t \in Tasks : StopCheck(t)
    \/ \E t \in Tasks : StopSignalStop(t)
    \/ \E t \in Tasks : StopClose(t)
    \/ \E t \in Tasks : StopEval(t)
    \/ \E t \in Tasks : StopWait(t)
    \/ \E l \in Loops : LoopSelect(l)
    \/ \E l \in Loops : LoopDone(l)
    \/ \E l \in Loops : LoopClose(l)
    \/ \E l \in Loops, s \in Sigs : Deliver(l, s)
    \/ \E l \in Loops : LoopLock(l)
    \/ \E l \in Loops : LoopInvoke(l)
    \/ \E l \in Loops : HandlerReturn(l)
    \/ \E l \in Loops : LoopUnlock(l)

Spec == Init /\ [][Next]_vars

\* the steps goroutine c takes once it is inside register or Stop
CallerStep(c) ==
    \/ RegInit(c) \/ RegMakeDone(c) \/ RegMakeDown(c) \/ RegMakeNch(c)
    \/ RegStep(c) \/ RegFin(c) \/ RegOn(c)
    \/ StopCheck(c) \/ StopSignalStop(c) \/ StopClose(c) \/ StopEval(c)
    \/ StopWait(c)

\* the steps of the dispatch goroutine l, but for the arrival of a signal
LoopStep(l) ==
    \/ LoopSelect(l) \/ LoopDone(l) \/ LoopClose(l) \/ LoopLock(l)
    \/ LoopInvoke(l) \/ HandlerReturn(l) \/ LoopUnlock(l)

\* The Go scheduler runs every goroutine that can take a step, a handler that
\* was invoked returns, and a select that finds done closed again and again
\* takes that case in the end (it picks among its ready cases at random).
\* Calls of the package and arrivals of signals are up to the program and the
\* system.
Fairness ==
    /\ \A c \in Callers : WF_vars(CallerStep(c))
    /\ \A l \in Loops : WF_vars(LoopStep(l)) /\ SF_vars(LoopDone(l))

SpecFair == Spec /\ Fairness

\* the same, with handlers that call Stop
NextStopping == Next \/ \E l \in Loops : LoopInvokeStopping(l)

SpecStopping == Init /\ [][NextStopping]_vars

\* the same as Spec, with one more registration call
NextMore == Next \/ \E c \in Callers : RegisterLate(c)

SpecMore == Init /\ [][NextMore]_vars


\* ------------------------------------------------------------------ claims
StopPcs == {"s_check", "s_sigstop", "s_close", "s_eval", "s_wait"}

\* goroutine l is between utx.Lock() and utx.Unlock() of a dispatch
InWalk(l) == pc[l] = "walk" \/ InHandler(l)

\* the number of entries of its chain goroutine l has invoked
Invoked(l) == IF pc[l] = "walk" THEN lidx[l] - 1 ELSE lidx[l]

NonDecreasing(q) == \A i, j \in 1..Len(q) : i < j => q[i] <= q[j]

\* C1: a delivery of s invokes the handlers registered for s in registration
\* order: the handlers invoked so far are the first entries of the chain of s,
\* in chain order, the chain is ordered by registration, every invoked handler
\* but the last returned true, and the walk ends only after a handler that
\* returned false or after the last entry.
C1_State ==
    \A l \in Loops : InWalk(l) =>
        /\ lchain[l] = Chain(lsig[l])
        /\ NonDecreasing(Ids(lchain[l]))
        /\ Len(trace) = Invoked(l)
        /\ Len(trace) <= Len(lchain[l])
        /\ \A i \in 1..Len(trace) :
              /\ trace[i][1] = lchain[l][i].id
              /\ i < Len(trace) => trace[i][2]
        /\ pc[l] = "walk" /\ Len(trace) > 0 => trace[Len(trace)][2]

C1_End ==
    \A l \in Loops : InWalk(l) /\ pc'[l] = "select" =>
        \/ Len(trace) = Len(lchain[l])
        \/ Len(trace) > 0 /\ ~trace[Len(trace)][2]

C1_ChainOrder == []C1_State /\ [][C1_End]_vars

\* C1 witness: the second of two handlers registered by different calls runs
C1_Witness ==
    \E l \in Loops :
        /\ pc[l] = "h_run"
        /\ Len(lchain[l]) >= 2
        /\ lidx[l] = 2
        /\ lchain[l][1].id < lchain[l][2].id

\* C2: when the last entry of the chain of s is soft, registering a handler
\* for s puts it at that position and the length stays; otherwise the handler
\* is appended and the length grows by one; the entries before are kept; and
\* no overwritten entry is invoked by a later delivery of s.
C2_Step ==
    \A c \in Callers :
        pc[c] = "r_loop" /\ rsl[c] # <<>> /\ rsl'[c] # rsl[c] =>
            LET s   == Head(rsl[c])
                ch  == Chain(s)
                n   == Len(ch)
            IN  /\ s \in DOMAIN handlers'
                /\ \A i \in 1..n : i < n => handlers'[s][i] = ch[i]
                /\ IF n > 0 /\ ch[n].soft
                   THEN Len(handlers'[s]) = n /\ handlers'[s][n] = rh[c]
                   ELSE /\ Len(handlers'[s]) = n + 1
                        /\ handlers'[s][n + 1] = rh[c]
                        /\ n > 0 => handlers'[s][n] = ch[n]

C2_NotInvoked ==
    \A l \in Loops : InWalk(l) =>
        \A i \in 1..Len(lchain[l]) : <<lsig[l], lchain[l][i].id>> \notin replaced

C2_SoftReplace == []C2_NotInvoked /\ [][C2_Step]_vars

\* C2 witness: a delivery of a signal one of whose soft entries was overwritten
C2_Witness ==
    \E l \in Loops :
        /\ pc[l] = "h_run"
        /\ \E r \in replaced : r[1] = lsig[l]

C4_Step ==
    \A t \in Tasks :
        pc[t] = "s_check" /\ ~on /\ pc'[t] # "s_check" =>
            /\ pc'[t] = Return(t)
            /\ \A u \in Tasks \ {t} : pc'[u] = pc[u]
            /\ UNCHANGED <<utx, on, handlers, chanVars, subs, panicked, wd>>

\* the test of on in Stop waits for nothing
C4_NoBlock ==
    \A t \in Tasks : pc[t] = "s_check" /\ ~panicked => ENABLED StopCheck(t)

C4_StopInactiveNoop == []C4_NoBlock /\ [][C4_Step]_vars

\* C4 witness: Stop is called directly after a Stop has returned
C4_Witness ==
    \E c \in Callers : pc[c] = "s_check" /\ ~on /\ stopped

\* C5: no channel is closed twice (no goroutine panics in close)
C5_NoDoubleClose == ~panicked


RegPcs == {"r_init", "r_done", "r_down", "r_nch", "r_loop", "r_on"}

\* the register call of c was given no signal: its list is empty and its
\* entry was merged into no chain
EmptyCall(c) ==
    /\ pc[c] \in RegPcs
    /\ rsl[c] = <<>>
    /\ rh[c].id \notin AllIds(handlers)

\* the dispatch goroutine l has been started and has not returned
Alive(l) == pc[l] \notin {"none", "exited"}

\* C6: no step of a registration call with an empty signal list changes the
\* chains, the subscriptions, on, the channels, or which dispatch goroutines
\* run.
C6_Step ==
    \A c \in Callers :
        EmptyCall(c) /\ pc'[c] # pc[c] =>
            /\ UNCHANGED <<on, handlers, nch, done, down, closedDone,
                           closedDown, subs>>
            /\ \A l \in Loops : pc'[l] = pc[l]

C6_EmptyListNoop == [][C6_Step]_vars

\* C7: the first registration call to begin after a Stop has returned finds
\* the subsystem inactive and makes the registry anew: it starts from an empty
\* map, subscribes each signal it names on the channel it made, leaves the
\* three package channels the ones it made, its own entry the only one in the
\* chains, and starts a dispatch goroutine; and no entry of a discarded map is
\* walked again.
C7_Step ==
    \A c \in Callers : after[c] =>
        /\ pc[c] = "r_init" /\ pc'[c] # "r_init" =>
              pc'[c] = "r_done" /\ handlers' = <<>>
        /\ pc[c] = "r_loop" /\ rsl[c] # <<>> /\ rsl'[c] # rsl[c] =>
              /\ nch = nchans
              /\ Head(rsl[c]) \notin DOMAIN handlers =>
                    Head(rsl[c]) \in subs'[nch]
        /\ pc[c] = "r_loop" /\ pc'[c] # "r_loop" =>
              /\ done = nchans /\ down = nchans /\ nch = nchans
              /\ AllIds(handlers) \subseteq {rh[c].id}
              /\ \E l \in Loops : pc[l] = "none" /\ pc'[l] = "select"
              /\ pc'[c] = "r_on"
        /\ pc[c] = "r_on" /\ pc'[c] # "r_on" => on'

C7_State ==
    \A l \in Loops : InWalk(l) =>
        \A i \in 1..Len(lchain[l]) : lchain[l][i].id \notin old

C7_FreshActivation == []C7_State /\ [][C7_Step]_vars

\* C8: a Stop called by a handler does not return, and the lock its dispatch
\* goroutine holds is never released.
C8_Step ==
    \A l \in Loops : pc[l] \in StopPcs => pc'[l] \in StopPcs /\ utx' = l

C8_Witness ==
    \E l \in Loops : pc[l] = "s_wait" /\ utx = l /\ ~panicked

\* the number of places of the chains that hold the entry h
Places(h) ==
    Cardinality({<<s, i>> \in Sigs \X (1..(MaxLen * (MaxReg + 1))) :
                    s \in DOMAIN handlers /\ i <= Len(handlers[s])
                    /\ handlers[s][i] = h})

\* C9: a wrapper registered by registerOne is a non-soft entry of exactly one
\* chain; a merge never overwrites it (only the discarding of the whole map
\* by a new activation removes it); and when it is invoked it returns true, so
\* the walk goes on to the entry after it.
C9_State ==
    /\ \A c \in Callers : pc[c] \in RegPcs /\ rh[c].once =>
          ~rh[c].soft /\ Len(rsl[c]) <= 1
    /\ \A s \in DOMAIN handlers : \A i \in 1..Len(handlers[s]) :
          handlers[s][i].once =>
              ~handlers[s][i].soft /\ Places(handlers[s][i]) = 1
    /\ \A l \in Loops : InHandler(l) /\ lchain[l][lidx[l]].once => lres[l]

C9_Step ==
    /\ \A s \in DOMAIN handlers : \A i \in 1..Len(handlers[s]) :
          handlers[s][i].once =>
              \/ handlers' = <<>>
              \/ /\ s \in DOMAIN handlers'
                 /\ Len(handlers'[s]) >= i
                 /\ handlers'[s][i] = handlers[s][i]
    /\ \A l \in Loops :
          pc[l] = "h_run" /\ lchain[l][lidx[l]].once /\ pc'[l] # "h_run" =>
              /\ pc'[l] = "walk"
              /\ lidx'[l] = lidx[l] + 1
              /\ lchain'[l] = lchain[l]

C9_RegisterOne == []C9_State /\ [][C9_Step]_vars

\* C9 witness: the entry after a registerOne wrapper is invoked
C9_Witness ==
    \E l \in Loops :
        /\ pc[l] = "h_run"
        /\ lidx[l] = 2
        /\ lchain[l][1].once

\* C10: on is set exactly when a dispatch goroutine is alive; it is set only
\* by a registration that starts one, and unset only by a Stop whose receive
\* from down succeeded.
C10_State == on <=> \E l \in Loops : Alive(l)

C10_Step ==
    /\ ~on /\ on' =>
          \E c \in Callers : pc[c] = "r_on" /\ pc'[c] = "idle"
    /\ on /\ ~on' =>
          \E t \in Tasks : pc[t] = "s_wait" /\ wd[t] \in closedDown
                           /\ pc'[t] = Return(t)

C10_OnIffLoopAlive == []C10_State /\ [][C10_Step]_vars

\* C11: no two handler invocations are in flight at the same time: a dispatch
\* goroutine walks a chain only while it holds utx, so at most one goroutine is
\* between the Lock and the Unlock of a dispatch, whatever the signals
\* delivered and whatever activations the goroutines belong to.
C11_OneInvocation ==
    /\ \A l \in Loops : InWalk(l) => utx = l
    /\ \A l, m \in Loops : InHandler(l) /\ InHandler(m) => l = m

\* C11 witness: a handler runs on the goroutine of one activation while the
\* goroutine of another activation has received a signal and waits for utx
C11_Witness ==
    \E l, m \in Loops : l # m /\ InHandler(l) /\ pc[m] = "lock"

\* a registration call is inside its critical section
InRegister(c) == pc[c] \in RegPcs

\* C12: registration calls are atomic with respect to each other and to the
\* dispatch goroutines.  At most one registration call is inside its critical
\* section, it holds utx, and no walk is in progress meanwhile; when its loop
\* over the signal list has ended, the chains are those that result from
\* applying the whole call in one step to the chains it found, so the calls
\* take effect one after the other in the order of their critical sections.
\* The chains change only in a step of the call that holds utx; a walk begins
\* only when no call is inside its critical section, and it iterates the chain
\* of the signal as it is then; no chain changes while a walk is in progress.
C12_State ==
    /\ \A c, d \in Callers : InRegister(c) /\ InRegister(d) => c = d
    /\ \A c \in Callers : InRegister(c) =>
          /\ utx = c
          /\ \A l \in Loops : ~InWalk(l)
    /\ \A c \in Callers :
          \/ pc[c] = "r_loop" /\ rsl[c] = <<>>
          \/ pc[c] = "r_on"
          => handlers = rexp[c]

C12_Step ==
    /\ handlers' # handlers =>
          \E c \in Callers : InRegister(c) /\ utx = c /\ pc'[c] \in RegPcs
    /\ \A l \in Loops : pc[l] = "lock" /\ pc'[l] = "walk" =>
          /\ \A c \in Callers : ~InRegister(c)
          /\ lchain'[l] = Chain(lsig[l])
    /\ \A l \in Loops : InWalk(l) =>
          /\ handlers' = handlers
          /\ InWalk(l)' => lchain'[l] = lchain[l]

C12_RegisterAtomic == []C12_State /\ [][C12_Step]_vars

\* C12 witness: a call that lists two signals has been applied to the first
\* and not yet to the second, while a dispatch goroutine has received a signal
\* and is about to walk its chain
C12_Witness ==
    \E c \in Callers, l \in Loops :
        /\ pc[c] = "r_loop"
        /\ Len(rsl[c]) = 1
        /\ handlers # rexp[c]
        /\ rh[c].id \in AllIds(handlers)
        /\ pc[l] = "lock"

\* C13: every access to the chains and to on is made by a goroutine that
\* holds utx: the writes of the chains and the reads and the write of on by
\* register, the read of the chain by the dispatch goroutine, and the read
\* (line 42) and the write (line 46) of on by Stop.
C13_Step ==
    /\ handlers' # handlers => \E c \in Callers : InRegister(c) /\ utx = c
    /\ \A c \in Callers :
          pc[c] \in {"r_init", "r_loop", "r_on"} /\ pc'[c] # pc[c] => utx = c
    /\ \A l \in Loops : pc[l] = "lock" /\ pc'[l] = "walk" => utx' = l
    /\ \A t \in Tasks : pc[t] = "s_check" /\ pc'[t] # "s_check" => utx = t
    /\ \A t \in Tasks : pc[t] = "s_wait" /\ pc'[t] # "s_wait" => utx = t

C13_LockedAccess == [][C13_Step]_vars

\* C14: once the done channel a dispatch goroutine selects on has been
\* closed, the goroutine's next wake-up from the select is the case of line
\* 133: it goes on to close(down) and returns, and does not receive a signal
\* from nch, so it starts no further walk.
C14_Step ==
    \A l \in Loops :
        pc[l] = "wait" /\ ldone[l] \in closedDone /\ pc'[l] # "wait" =>
            pc'[l] = "closing"

C15_Step ==
    \A t \in Tasks :
        pc[t] = "s_wait" /\ pc'[t] # "s_wait" => subs'[wd[t]] = {}

C15_UnsubscribedAfterStop == [][C15_Step]_vars

\* C16: whenever no registration call is inside its critical section, every
\* entry of a chain that is not its last entry is not soft: a chain has at
\* most one soft entry, and a soft entry is the last one.
C16_SoftOnlyLast ==
    (\A c \in Callers : ~InRegister(c)) =>
        \A s \in DOMAIN handlers : \A i \in 1..Len(handlers[s]) :
            handlers[s][i].soft => i = Len(handlers[s])

\* C16 witness: after the registration calls have returned, a chain of two
\* entries ends with a soft entry
C16_Witness ==
    /\ \A c \in Callers : ~InRegister(c)
    /\ nreg = MaxReg
    /\ \E s \in DOMAIN handlers :
          /\ Len(handlers[s]) = 2
          /\ handlers[s][2].soft
          /\ ~handlers[s][1].soft

\* C17: whenever utx is free, every signal subscribed with os/signal, on
\* whatever channel, has a non-empty chain in the map.
C17_SubscribedHaveChain ==
    utx = 0 =>
        \A ch \in DOMAIN subs : \A s \in subs[ch] : Chain(s) # <<>>

\* a step of the dispatch of a delivered signal by goroutine l: the receive,
\* the lock, an invocation, the return of a handler, the end of the walk
DispatchStep(l) ==
    /\ pc[l] \in {"wait", "lock", "walk", "h_run"}
    /\ pc'[l] \in {"lock", "walk", "h_run", "select"}
    /\ <<pc[l], lidx[l]>> # <<pc'[l], lidx'[l]>>

\* C18: dispatching a signal never modifies the registry.  No step of a
\* dispatch changes a chain or on, whether the walk runs to the end or is cut
\* short by a false result; the chain being walked stays the chain of the
\* signal in the map; and every walk begins at the first entry of the whole
\* chain of its signal, whatever the walk before it invoked.
C18_Step ==
    \A l \in Loops :
        /\ DispatchStep(l) => handlers' = handlers /\ on' = on
        /\ pc[l] = "lock" /\ pc'[l] = "walk" =>
              /\ lidx'[l] = 1
              /\ lsig[l] \in DOMAIN handlers => lchain'[l] = handlers[lsig[l]]

C18_State ==
    \A l \in Loops : InWalk(l) /\ lsig[l] \in DOMAIN handlers =>
        lchain[l] = handlers[lsig[l]]

C18_DispatchReadOnly == []C18_State /\ [][C18_Step]_vars

\* C18 witness: a walk was cut short by the false result of the first entry
\* of a chain of two, and a further signal with that chain has been received:
\* the chain still holds both entries
C18_Witness ==
    \E l \in Loops :
        /\ pc[l] = "lock"
        /\ utx = 0
        /\ trace # <<>>
        /\ ~trace[Len(trace)][2]
        /\ Len(Chain(lsig[l])) > Len(trace)
        /\ \A i \in 1..Len(trace) : trace[i][1] = Chain(lsig[l])[i].id

\* C19: under fair scheduling, a Stop called by a goroutine of the program
\* that has found on set returns in the end.
C19_StopReturns ==
    \A c \in Callers : pc[c] = "s_sigstop" ~> pc[c] = "idle"

\* C20: at most one dispatch goroutine is alive at any time: a registration
\* runs "go handleSignals()" only when every goroutine started before has
\* returned.
C20_OneLoop ==
    \A l, m \in Loops : Alive(l) /\ Alive(m) => l = m

====
